---- MODULE Spec2Model ----
(***************************************************************************)
(* A model of the OpenFisca MCP server: the error taxonomy (errors.py),    *)
(* the upstream error normalizer (format_api_error), the transport client  *)
(* (client.py) and the tool dispatcher with its handlers (server.py).      *)
(*                                                                         *)
(* JSON values are tagged records: [str |-> s], [num |-> n],               *)
(* [null |-> TRUE], [list |-> <<...>>], [obj |-> m].  A Python dict keeps  *)
(* insertion order, so a mapping m is a sequence of entries [k, v] with    *)
(* pairwise distinct keys.  An optional argument is <<>> (None) or <<x>>.  *)
(***************************************************************************)
EXTENDS Integers, Sequences, FiniteSets, TLC

VARIABLES
    norm,       \* a call of format_api_error: its body and status, then its result
    dstate,     \* dispatcher state of the current tool call
    call,       \* the tool call in flight: name and argument mapping
    engine,     \* how the Rule Engine Service answers during this call
    rendered,   \* the rendered results emitted for the current call
    escaped,    \* TRUE when an exception left call_tool
    requests,   \* the requests issued to the engine during the current call
    posted,     \* the JSON bodies sent to the engine during the current call
    transport,  \* the transport client: its connection handle and last operation
    made,       \* a construction of a taxonomy error: its arguments, then the error
    earlier     \* a validate_situation call handled before, kept for comparison

vars == <<norm, dstate, call, engine, rendered, escaped, requests, posted, transport,
          made, earlier>>

-----------------------------------------------------------------------------
(* Bounds of the model *)

\* the largest number of keys of an upstream error body
MaxBodyKeys == 2

\* the largest number of top-level keys of a situation
MaxTop == 2

\* the largest number of keys of one instance of a situation
MaxKeys == 2

\* the largest number of ids in one role list
MaxRefs == 2

\* the largest number of connection handles a client creates
MaxHandles == 2

\* the largest number of calls counted between a call and its repetition
MaxBetween == 2

-----------------------------------------------------------------------------
(* JSON values and ordered mappings *)

Str(s) == [str |-> s]
Num(n) == [num |-> n]
Null == [null |-> TRUE]
List(l) == [list |-> l]
Obj(m) == [obj |-> m]
Bool(b) == [bool |-> b]

IsStr(v) == DOMAIN v = {"str"}
IsList(v) == DOMAIN v = {"list"}
IsObj(v) == DOMAIN v = {"obj"}

None == <<>>
Some(x) == <<x>>

Entry(key, val) == [k |-> key, v |-> val]

\* the keys of a mapping, as a set
Keys(m) == {m[i].k : i \in 1..Len(m)}

\* key in m
Has(m, key) == \E i \in 1..Len(m) : m[i].k = key

\* m[key], for a key of m
Get(m, key) == m[CHOOSE i \in 1..Len(m) : m[i].k = key].v

\* m.get(key, default)
GetOr(m, key, default) == IF Has(m, key) THEN Get(m, key) ELSE default

\* the sequences over S of length at most n
SeqsUpTo(S, n) == UNION {[1..len -> S] : len \in 0..n}

\* the sequences over S of length at most n without a repeated element
InjectiveSeqs(S, n) ==
    {q \in SeqsUpTo(S, n) : \A i, j \in 1..Len(q) : q[i] = q[j] => i = j}

\* the mappings with the keys ks, in this order, and a value of vals[key] each
RECURSIVE MapsWithKeys(_, _)
MapsWithKeys(ks, vals) ==
    IF ks = <<>> THEN {<<>>}
    ELSE {<<[k |-> Head(ks), v |-> p[1]]>> \o p[2] :
            p \in vals[Head(ks)] \X MapsWithKeys(Tail(ks), vals)}

\* the mappings of at most n entries, where vals maps each key to its values
MapsUpTo(vals, n) ==
    UNION {MapsWithKeys(ks, vals) : ks \in InjectiveSeqs(DOMAIN vals, n)}

\* the concatenation of a sequence of sequences
RECURSIVE Flatten(_)
Flatten(ss) == IF ss = <<>> THEN <<>> ELSE Head(ss) \o Flatten(Tail(ss))

\* [f(m[1]), ..., f(m[n])]
Map(m, f(_)) == [i \in 1..Len(m) |-> f(m[i])]

\* sub in s, for strings
Contains(s, sub) ==
    \E i \in 1..(Len(s) - Len(sub) + 1) : SubSeq(s, i, i + Len(sub) - 1) = sub

\* str(v), as an f-string renders a JSON scalar
PyStr(v) ==
    IF IsStr(v) THEN v.str
    ELSE IF DOMAIN v = {"num"} THEN ToString(v.num)
    ELSE "None"

-----------------------------------------------------------------------------
(* errors.py: the error taxonomy *)

MCPError(error_type, message, code, details, suggestions) ==
    [error_type |-> error_type,
     message |-> message,
     code |-> code,
     details |-> IF details = None \/ details[1] = <<>> THEN <<>> ELSE details[1],
     suggestions |-> IF suggestions = None \/ suggestions[1] = <<>>
                     THEN <<>> ELSE suggestions[1]]

ValidationError(message, details, suggestions) ==
    MCPError("validation_error", message, 400, details, suggestions)

NotFoundError(message, details, suggestions) ==
    MCPError("not_found_error", message, 404, details, suggestions)

DependencyError(message, details, suggestions) ==
    MCPError("dependency_error", message, 500, details, suggestions)

\* a connection error without its default suggestion
ConnectionErrorBare(message, details, suggestions) ==
    MCPError("connection_error", message, 503, details, suggestions)

ConnectionError(message, details, suggestions) ==
    MCPError("connection_error", message, 503, details,
             IF suggestions = None \/ suggestions[1] = <<>>
             THEN Some(<<"Check that the OpenFisca server is running">>)
             ELSE suggestions)

\* a serialization that always writes the default code
ToDictDefaultCode(e) ==
    Obj(<<Entry("error", Obj(<<
        Entry("type", Str(e.error_type)),
        Entry("code", Num(400)),
        Entry("message", Str(e.message)),
        Entry("details", Obj(e.details)),
        Entry("suggestions", List([i \in 1..Len(e.suggestions) |-> Str(e.suggestions[i])]))
    >>))>>)

to_dict(e) ==
    Obj(<<Entry("error", Obj(<<
        Entry("type", Str(e.error_type)),
        Entry("code", Num(e.code)),
        Entry("message", Str(e.message)),
        Entry("details", Obj(e.details)),
        Entry("suggestions", List([i \in 1..Len(e.suggestions) |-> Str(e.suggestions[i])]))
    >>))>>)

-----------------------------------------------------------------------------
(* errors.py: format_api_error *)

\* the keys kept by the comprehension of line 123
IsFieldKey(key) == Contains(key, "/") \/ key # "error"

FieldErrors(response_data) == SelectSeq(response_data, LAMBDA e : IsFieldKey(e.k))

\* a normalizer that forgets the 404 case of the first rule
FormatApiErrorNo404(response_data, status_code) ==
    IF Has(response_data, "error") /\ IsStr(Get(response_data, "error"))
    THEN ValidationError(Get(response_data, "error").str, None, None)
    ELSE LET field_errors == FieldErrors(response_data) IN
         IF field_errors # <<>>
         THEN ValidationError(
                "Validation error at " \o field_errors[1].k \o ": " \o PyStr(field_errors[1].v),
                Some(<<Entry("field_errors", Obj(field_errors))>>),
                Some(<<"Check the field path and value format">>))
         ELSE ValidationError("API returned an error",
                Some(<<Entry("raw_response", Obj(response_data))>>), None)

\* a normalizer that reports the last field error instead of the first
FormatApiErrorLast(response_data, status_code) ==
    IF Has(response_data, "error") /\ IsStr(Get(response_data, "error"))
    THEN IF status_code = 404
         THEN NotFoundError(Get(response_data, "error").str, None, None)
         ELSE ValidationError(Get(response_data, "error").str, None, None)
    ELSE LET field_errors == FieldErrors(response_data) IN
         IF field_errors # <<>>
         THEN ValidationError(
                "Validation error at " \o field_errors[Len(field_errors)].k \o ": "
                    \o PyStr(field_errors[Len(field_errors)].v),
                Some(<<Entry("field_errors", Obj(field_errors))>>),
                Some(<<"Check the field path and value format">>))
         ELSE ValidationError("API returned an error",
                Some(<<Entry("raw_response", Obj(response_data))>>), None)

\* a normalizer whose last rule attaches no raw_response
FormatApiErrorNoRaw(response_data, status_code) ==
    IF Has(response_data, "error") /\ IsStr(Get(response_data, "error"))
    THEN IF status_code = 404
         THEN NotFoundError(Get(response_data, "error").str, None, None)
         ELSE ValidationError(Get(response_data, "error").str, None, None)
    ELSE LET field_errors == FieldErrors(response_data) IN
         IF field_errors # <<>>
         THEN ValidationError(
                "Validation error at " \o field_errors[1].k \o ": " \o PyStr(field_errors[1].v),
                Some(<<Entry("field_errors", Obj(field_errors))>>),
                Some(<<"Check the field path and value format">>))
         ELSE ValidationError("API returned an error", None, None)

format_api_error(response_data, status_code) ==
    IF Has(response_data, "error") /\ IsStr(Get(response_data, "error"))
    THEN IF status_code = 404
         THEN NotFoundError(Get(response_data, "error").str, None, None)
         ELSE ValidationError(Get(response_data, "error").str, None, None)
    ELSE LET field_errors == FieldErrors(response_data) IN
         IF field_errors # <<>>
         THEN ValidationError(
                "Validation error at " \o field_errors[1].k \o ": " \o PyStr(field_errors[1].v),
                Some(<<Entry("field_errors", Obj(field_errors))>>),
                Some(<<"Check the field path and value format">>))
         ELSE ValidationError("API returned an error",
                Some(<<Entry("raw_response", Obj(response_data))>>), None)

-----------------------------------------------------------------------------
(* Outcomes of a Python call: a returned value, a raised MCPError, or any  *)
(* other raised exception (carrying str(e))                                *)

Ok(data) == [ok |-> data]
Raise(e) == [mcp |-> e]
Fault(msg) == [exc |-> msg]

IsOk(r) == DOMAIN r = {"ok"}
IsRaise(r) == DOMAIN r = {"mcp"}
IsFault(r) == DOMAIN r = {"exc"}

-----------------------------------------------------------------------------
(* client.py: the transport client *)

base_url == "http://localhost:5000"

\* OpenFiscaClient(): no handle yet.  Handles are numbered in creation order;
\* `open` holds the handles created and not closed, `closes` the handles
\* .close() was called on, in order, `closing` what the last close() found.
NoClient ==
    [_client |-> None, created |-> 0, open |-> {}, closes |-> <<>>,
     last |-> None, closing |-> None]

\* a `client` property that makes a new handle at every access
ClientAlwaysNew(t) ==
    [t EXCEPT !._client = Some(t.created + 1),
              !.created = t.created + 1,
              !.open = t.open \cup {t.created + 1}]

\* the `client` property: the handle, created on first use
client(t) ==
    IF t._client = None
    THEN [t EXCEPT !._client = Some(t.created + 1),
                   !.created = t.created + 1,
                   !.open = t.open \cup {t.created + 1}]
    ELSE t

\* a close() that forgets to drop the handle it closed (line 39)
CloseKeepsHandle(t) ==
    IF t._client # None
    THEN [t EXCEPT !.open = t.open \ {t._client[1]},
                   !.closes = Append(t.closes, t._client[1])]
    ELSE t

close(t) ==
    IF t._client # None
    THEN [t EXCEPT !.open = t.open \ {t._client[1]},
                   !.closes = Append(t.closes, t._client[1]),
                   !._client = None]
    ELSE t

\* An answer of the engine to one request: an HTTP response with a status and
\* a body (a JSON value, or [text |-> s] when the body is not JSON), a refused
\* connection (httpx.ConnectError) or a connection attempt that times out
\* (httpx.ConnectTimeout, which is not an httpx.ConnectError).
Response(status, body) == [r |-> "response", status |-> status, body |-> body]
Refused == [r |-> "refused", cause |-> "[Errno 111] Connection refused"]
TimedOut == [r |-> "timeout", cause |-> "timed out"]

IsText(body) == DOMAIN body = {"text"}

\* format_api_error called with whatever response.json() returned
NormalizeData(data, status_code) ==
    IF IsObj(data) THEN Raise(format_api_error(data.obj, status_code))
    ELSE IF IsList(data)
         THEN IF \E i \in 1..Len(data.list) : data.list[i] = Str("error")
              THEN Fault("list indices must be integers or slices, not str")
              ELSE Fault("'list' object has no attribute 'items'")
    ELSE IF IsStr(data)
         THEN IF Contains(data.str, "error")
              THEN Fault("string indices must be integers, not 'str'")
              ELSE Fault("'str' object has no attribute 'items'")
    ELSE IF DOMAIN data = {"num"} THEN Fault("argument of type 'int' is not iterable")
    ELSE Fault("argument of type 'NoneType' is not iterable")

_handle_response(response) ==
    IF response.status >= 400
    THEN NormalizeData(IF IsText(response.body)
                       THEN Obj(<<Entry("error", Str(response.body.text))>>)
                       ELSE response.body,
                       response.status)
    ELSE IF IsText(response.body)
         THEN Fault("Expecting value: line 1 column 1 (char 0)")
         ELSE Ok(response.body)

\* the body shared by get_entities ... trace: one request, answered by `answer`
ClientOp(answer) ==
    IF answer.r = "refused"
    THEN Raise(ConnectionError(
            "Cannot connect to OpenFisca API at " \o base_url,
            Some(<<Entry("url", Str(base_url)), Entry("error", Str(answer.cause))>>),
            None))
    ELSE IF answer.r = "timeout" THEN Fault(answer.cause)
    ELSE _handle_response(answer)

-----------------------------------------------------------------------------
(* server.py: handle_validate_situation *)

\* A handler's outcome together with the requests it issued, in order
Done(res, reqs) == [res |-> res, reqs |-> reqs, sent |-> <<>>]

SituationRequired ==
    ValidationError("Situation is required", None,
                    Some(<<"Provide a situation object with persons and households">>))

\* type(v).__name__ of a JSON value
TypeName(v) ==
    IF IsStr(v) THEN "str"
    ELSE IF IsList(v) THEN "list"
    ELSE IF IsObj(v) THEN "dict"
    ELSE IF DOMAIN v = {"num"} THEN "int"
    ELSE IF DOMAIN v = {"bool"} THEN "bool"
    ELSE "NoneType"

\* lines 412-413: every entity's plural and every entity's own key
valid_entity_plurals(entities) ==
    {Get(entities[i].v.obj, "plural").str : i \in 1..Len(entities)} \cup Keys(entities)

\* lines 416-418
TopLevelErrors(situation, entities) ==
    Map(SelectSeq(situation, LAMBDA e : e.k \notin valid_entity_plurals(entities)),
        LAMBDA e : "Unknown entity type: '" \o e.k \o "'")

\* line 421
\* a validator that also takes the persons given under the key person
PersonsOfEitherKey(situation) ==
    IF Has(situation, "persons") THEN Get(situation, "persons").obj
    ELSE GetOr(situation, "person", Obj(<<>>)).obj

persons_of(situation) == GetOr(situation, "persons", Obj(<<>>)).obj

\* lines 422-423
PersonPresenceErrors(persons) ==
    IF persons = <<>> THEN <<"At least one person must be defined">> ELSE <<>>

\* lines 432-435
PersonVariableErrors(persons, all_vars) ==
    Flatten(Map(persons, LAMBDA p :
        Map(SelectSeq(p.v.obj, LAMBDA e : ~Has(all_vars, e.k)),
            LAMBDA e : "Unknown variable '" \o e.k \o "' for person '" \o p.k \o "'")))

\* line 447
role_keys(entity_info) == Keys(Get(entity_info, "roles").obj)

\* line 448: Ok(the set of role plurals), or the exception the set
\* comprehension raises.  r.get("plural", r["key"]) evaluates r["key"] before
\* the call, so a descriptor without "key" raises KeyError('key'); only the
\* first descriptor is probed for being a mapping.
role_plurals(entity_info) ==
    LET roles == Get(entity_info, "roles").obj
        bad == {i \in 1..Len(roles) :
                    ~IsObj(roles[i].v) \/ ~Has(roles[i].v.obj, "key")}
        first == CHOOSE i \in bad : \A j \in bad : i <= j
    IN  IF roles # <<>> /\ ~IsObj(roles[1].v) THEN Ok({})
        ELSE IF bad = {}
        THEN Ok({GetOr(roles[i].v.obj, "plural", Get(roles[i].v.obj, "key")) :
                    i \in 1..Len(roles)})
        ELSE IF ~IsObj(roles[first].v)
        THEN Fault("'" \o TypeName(roles[first].v) \o "' object has no attribute 'get'")
        ELSE Fault("'key'")

\* lines 450-463, for one key of one group instance
GroupKeyErrors(entity_plural, instance_id, e, rkeys, rplurals, persons, all_vars) ==
    IF e.k \in rkeys \/ Str(e.k) \in rplurals
    THEN IF IsList(e.v)
         THEN Map(SelectSeq(e.v.list, LAMBDA id : ~Has(persons, id.str)),
                  LAMBDA id : "Person '" \o id.str \o "' in " \o entity_plural \o "/"
                              \o instance_id \o "/" \o e.k \o " is not defined in persons")
         ELSE <<>>
    ELSE IF ~Has(all_vars, e.k)
         THEN <<"Unknown variable '" \o e.k \o "' for " \o entity_plural
                    \o " '" \o instance_id \o "'">>
         ELSE <<>>

\* line 443
group_instances(situation, entity_info) ==
    GetOr(situation, Get(entity_info, "plural").str, Obj(<<>>)).obj

\* lines 438-463 for one entity: nothing for an entity without roles
GroupEntityErrors(situation, entity_info, persons, all_vars) ==
    IF ~Has(entity_info, "roles") THEN <<>>
    ELSE Flatten(Map(group_instances(situation, entity_info), LAMBDA inst :
            Flatten(Map(inst.v.obj, LAMBDA e :
                GroupKeyErrors(Get(entity_info, "plural").str, inst.k, e,
                               role_keys(entity_info), role_plurals(entity_info).ok,
                               persons, all_vars)))))

\* the group entities whose loop body runs (at least one instance) and whose
\* line 448 raises
FaultingEntities(situation, entities) ==
    {i \in 1..Len(entities) :
        /\ Has(entities[i].v.obj, "roles")
        /\ group_instances(situation, entities[i].v.obj) # <<>>
        /\ IsFault(role_plurals(entities[i].v.obj))}

\* lines 403-480, once both fetches have succeeded
ValidateFetched(situation, entities, all_vars) ==
    LET persons == persons_of(situation)
        faulting == FaultingEntities(situation, entities)
        errors ==
            TopLevelErrors(situation, entities)
            \o PersonPresenceErrors(persons)
            \o PersonVariableErrors(persons, all_vars)
            \o Flatten(Map(entities, LAMBDA en :
                    GroupEntityErrors(situation, en.v.obj, persons, all_vars)))
    IN  IF faulting # {}
        THEN role_plurals(entities[CHOOSE i \in faulting : \A j \in faulting : i <= j].v.obj)
        ELSE IF errors # <<>>
        THEN Ok(Obj(<<Entry("valid", Bool(FALSE)),
                      Entry("errors", List(Map(errors, LAMBDA m : Str(m)))),
                      Entry("warnings", List(<<>>))>>))
        ELSE Ok(Obj(<<Entry("valid", Bool(TRUE)),
                      Entry("message", Str("Situation is valid")),
                      Entry("warnings", List(<<>>))>>))

-----------------------------------------------------------------------------
(* server.py: rendering, and the other handlers *)

\* json.dumps(v, indent=2): the JSON text that encodes v
Dumps(v) == [json |-> v]

TextContent(text) == [type |-> "text", text |-> text]

format_result(data) ==
    IF IsObj(data) THEN <<TextContent(Dumps(data))>>
    ELSE <<TextContent([pystr |-> data])>>

format_error(error) == <<TextContent(Dumps(to_dict(error)))>>

\* the engine's answer to GET /variable/<name>
VariableAnswer(eng, name) ==
    GetOr(eng.variable, name,
          Response(404, Obj(<<Entry("error", Str("Variable not found"))>>)))

\* a handler that makes one request and renders what it gets
Passthrough(answer, request) ==
    LET r == ClientOp(answer)
    IN  Done(IF IsOk(r) THEN Ok(format_result(r.ok)) ELSE r, <<request>>)

handle_list_entities(eng) == Passthrough(eng.entities, "GET /entities")

\* lines 305-310 for one variable: TRUE when the variable is kept
\* a filter that keeps a variable whose detail fetch fails
DetailMatchesOrFails(eng, var_name, entity) ==
    LET details == ClientOp(VariableAnswer(eng, var_name))
    IN  IsOk(details) =>
            /\ IsObj(details.ok)
            /\ GetOr(details.ok.obj, "entity", Null) = Str(entity)

DetailMatches(eng, var_name, entity) ==
    LET details == ClientOp(VariableAnswer(eng, var_name))
    IN  /\ IsOk(details)
        /\ IsObj(details.ok)
        /\ GetOr(details.ok.obj, "entity", Null) = Str(entity)

\* `if entity:` for the optional entity argument
Truthy(arg) == arg # None /\ IsStr(arg[1]) /\ arg[1].str # ""

handle_list_variables(entity, eng) ==
    LET data == ClientOp(eng.variables)
    IN  IF ~IsOk(data) THEN Done(data, <<"GET /variables">>)
        ELSE IF ~Truthy(entity) THEN Done(Ok(format_result(data.ok)), <<"GET /variables">>)
        ELSE IF ~IsObj(data.ok)
        THEN Done(Fault("'" \o TypeName(data.ok) \o "' object has no attribute 'items'"),
                  <<"GET /variables">>)
        ELSE Done(Ok(format_result(Obj(SelectSeq(data.ok.obj,
                        LAMBDA e : DetailMatches(eng, e.k, entity[1].str))))),
                  <<"GET /variables">>
                    \o Map(data.ok.obj, LAMBDA e : "GET /variable/" \o e.k))

handle_describe_variable(variable_name, eng) ==
    Passthrough(VariableAnswer(eng, variable_name.str), "GET /variable/" \o variable_name.str)

handle_list_parameters(eng) == Passthrough(eng.parameters, "GET /parameters")

handle_get_parameter(parameter_id, eng) ==
    Passthrough(eng.parameter, "GET /parameter/" \o parameter_id.str)

UpperCase == "ABCDEFGHIJKLMNOPQRSTUVWXYZ"
LowerCase == "abcdefghijklmnopqrstuvwxyz"

\* str.lower()
RECURSIVE Lower(_)
Lower(s) ==
    IF s = "" THEN ""
    ELSE LET c == SubSeq(s, 1, 1)
             up == {i \in 1..Len(UpperCase) : SubSeq(UpperCase, i, i) = c}
         IN  (IF up = {} THEN c
              ELSE LET i == CHOOSE i \in up : TRUE IN SubSeq(LowerCase, i, i))
             \o Lower(SubSeq(s, 2, Len(s)))

\* lines 343-346: does the variable match the query
QueryMatches(e, query) ==
    \/ Contains(Lower(e.k), Lower(query))
    \/ Contains(Lower(GetOr(e.v.obj, "description", Str("")).str), Lower(query))

\* the variables whose description is present but no string: .lower() raises
BadDescriptions(all_vars) ==
    {i \in 1..Len(all_vars) : ~IsStr(GetOr(all_vars[i].v.obj, "description", Str("")))}

handle_search_variables(query, entity, eng) ==
    LET all_vars == ClientOp(eng.variables)
        vs == all_vars.ok.obj
        bad == BadDescriptions(vs)
        stop == IF bad = {} THEN Len(vs) + 1 ELSE CHOOSE i \in bad : \A j \in bad : i <= j
        \* the candidates reached before the loop ends or raises
        candidates == SelectSeq(SubSeq(vs, 1, stop - 1), LAMBDA e : QueryMatches(e, query.str))
        fetches == IF Truthy(entity)
                   THEN Map(candidates, LAMBDA e : "GET /variable/" \o e.k) ELSE <<>>
        matches == IF Truthy(entity)
                   THEN SelectSeq(candidates, LAMBDA e : DetailMatches(eng, e.k, entity[1].str))
                   ELSE candidates
    IN  IF ~IsOk(all_vars) THEN Done(all_vars, <<"GET /variables">>)
        ELSE IF bad # {}
        THEN Done(Fault("'" \o TypeName(Get(vs[stop].v.obj, "description"))
                            \o "' object has no attribute 'lower'"),
                  <<"GET /variables">> \o fetches)
        ELSE IF matches = <<>>
        THEN Done(Ok(format_result(Obj(<<
                    Entry("message", Str("No variables found matching '" \o query.str \o "'")),
                    Entry("suggestions", List(<<Str("Try a different search term"),
                        Str("Use list_variables to see all available variables")>>))>>))),
                  <<"GET /variables">> \o fetches)
        ELSE Done(Ok(format_result(Obj(matches))), <<"GET /variables">> \o fetches)

\* client.calculate(situation), client.trace(situation): the request carries
\* the situation as its JSON body
Posting(answer, request, situation) ==
    [Passthrough(answer, request) EXCEPT !.sent = <<situation>>]

\* a calculate that sends whatever situation it is given, an empty one too
CalculateUnguarded(situation, eng) ==
    Posting(eng.calculate, "POST /calculate", situation)

handle_calculate(situation, eng) ==
    IF situation.obj = <<>> THEN Done(Raise(SituationRequired), <<>>)
    ELSE Posting(eng.calculate, "POST /calculate", situation)

handle_trace_calculation(situation, eng) ==
    IF situation.obj = <<>> THEN Done(Raise(SituationRequired), <<>>)
    ELSE Posting(eng.trace, "POST /trace", situation)

\* a validator that answers from state left by earlier calls: once the
\* client has been used it takes every situation for empty
ValidateLeaking(situation, eng) ==
    LET entities == ClientOp(eng.entities)
        all_vars == ClientOp(eng.variables)
    IN  IF situation.obj = <<>> \/ transport.created > 0
        THEN Done(Raise(SituationRequired), <<>>)
        ELSE IF ~IsOk(entities) THEN Done(entities, <<"GET /entities">>)
        ELSE IF ~IsOk(all_vars) THEN Done(all_vars, <<"GET /entities", "GET /variables">>)
        ELSE Done((LET r == ValidateFetched(situation.obj, entities.ok.obj, all_vars.ok.obj)
                   IN  IF IsOk(r) THEN Ok(format_result(r.ok)) ELSE r),
                  <<"GET /entities", "GET /variables">>)

handle_validate_situation(situation, eng) ==
    LET entities == ClientOp(eng.entities)
        all_vars == ClientOp(eng.variables)
    IN  IF situation.obj = <<>> THEN Done(Raise(SituationRequired), <<>>)
        ELSE IF ~IsOk(entities) THEN Done(entities, <<"GET /entities">>)
        ELSE IF ~IsOk(all_vars) THEN Done(all_vars, <<"GET /entities", "GET /variables">>)
        ELSE Done((LET r == ValidateFetched(situation.obj, entities.ok.obj, all_vars.ok.obj)
                   IN  IF IsOk(r) THEN Ok(format_result(r.ok)) ELSE r),
                  <<"GET /entities", "GET /variables">>)

-----------------------------------------------------------------------------
(* server.py: call_tool *)

\* arguments[key] followed by the handler: KeyError(key) when it is missing
WithArg(arguments, key, handler(_)) ==
    IF Has(arguments, key) THEN handler(Get(arguments, key))
    ELSE Done(Fault("'" \o key \o "'"), <<>>)

\* arguments.get(key)
ArgGet(arguments, key) == IF Has(arguments, key) THEN Some(Get(arguments, key)) ELSE None

\* a dispatcher that hands a name it does not know to list_entities
DispatchLenient(name, arguments, eng) ==
    IF name = "list_entities" THEN handle_list_entities(eng)
    ELSE IF name = "list_variables"
    THEN handle_list_variables(ArgGet(arguments, "entity"), eng)
    ELSE IF name = "describe_variable"
    THEN WithArg(arguments, "variable_name", LAMBDA a : handle_describe_variable(a, eng))
    ELSE IF name = "list_parameters" THEN handle_list_parameters(eng)
    ELSE IF name = "get_parameter"
    THEN WithArg(arguments, "parameter_id", LAMBDA a : handle_get_parameter(a, eng))
    ELSE IF name = "search_variables"
    THEN WithArg(arguments, "query",
            LAMBDA a : handle_search_variables(a, ArgGet(arguments, "entity"), eng))
    ELSE IF name = "calculate"
    THEN WithArg(arguments, "situation", LAMBDA a : handle_calculate(a, eng))
    ELSE IF name = "trace_calculation"
    THEN WithArg(arguments, "situation", LAMBDA a : handle_trace_calculation(a, eng))
    ELSE IF name = "validate_situation"
    THEN WithArg(arguments, "situation", LAMBDA a : handle_validate_situation(a, eng))
    ELSE handle_list_entities(eng)

\* lines 255-276: the handler chosen by exact name match
Dispatch(name, arguments, eng) ==
    IF name = "list_entities" THEN handle_list_entities(eng)
    ELSE IF name = "list_variables"
    THEN handle_list_variables(ArgGet(arguments, "entity"), eng)
    ELSE IF name = "describe_variable"
    THEN WithArg(arguments, "variable_name", LAMBDA a : handle_describe_variable(a, eng))
    ELSE IF name = "list_parameters" THEN handle_list_parameters(eng)
    ELSE IF name = "get_parameter"
    THEN WithArg(arguments, "parameter_id", LAMBDA a : handle_get_parameter(a, eng))
    ELSE IF name = "search_variables"
    THEN WithArg(arguments, "query",
            LAMBDA a : handle_search_variables(a, ArgGet(arguments, "entity"), eng))
    ELSE IF name = "calculate"
    THEN WithArg(arguments, "situation", LAMBDA a : handle_calculate(a, eng))
    ELSE IF name = "trace_calculation"
    THEN WithArg(arguments, "situation", LAMBDA a : handle_trace_calculation(a, eng))
    ELSE IF name = "validate_situation"
    THEN WithArg(arguments, "situation", LAMBDA a : handle_validate_situation(a, eng))
    ELSE Done(Raise(ValidationError("Unknown tool: " \o name, None, None)), <<>>)

\* a dispatcher without the catch-all clause of lines 279-285
RenderNoCatchAll(res) ==
    IF IsOk(res) THEN [out |-> <<res.ok>>, escaped |-> FALSE]
    ELSE IF IsRaise(res) THEN [out |-> <<format_error(res.mcp)>>, escaped |-> FALSE]
    ELSE [out |-> <<>>, escaped |-> TRUE]

\* a dispatcher that renders every failure as an internal error
RenderAllInternal(res) ==
    IF IsOk(res) THEN [out |-> <<res.ok>>, escaped |-> FALSE]
    ELSE [out |-> <<format_error(MCPError("internal_error",
                        IF IsRaise(res) THEN res.mcp.message ELSE res.exc,
                        500, None, None))>>,
          escaped |-> FALSE]

\* a dispatcher whose catch-all drops the message of the failure
RenderNoMessage(res) ==
    IF IsOk(res) THEN [out |-> <<res.ok>>, escaped |-> FALSE]
    ELSE IF IsRaise(res) THEN [out |-> <<format_error(res.mcp)>>, escaped |-> FALSE]
    ELSE [out |-> <<format_error(MCPError("internal_error", "Internal error", 500,
                                          None, None))>>,
          escaped |-> FALSE]

\* lines 254-285: what call_tool hands back for the outcome of the try block:
\* the returned rendering, or the rendering made by one of the except clauses
Render(res) ==
    IF IsOk(res) THEN [out |-> <<res.ok>>, escaped |-> FALSE]
    ELSE IF IsRaise(res) THEN [out |-> <<format_error(res.mcp)>>, escaped |-> FALSE]
    ELSE [out |-> <<format_error(MCPError("internal_error", res.exc, 500, None, None))>>,
          escaped |-> FALSE]

-----------------------------------------------------------------------------
(* The Rule Engine Service and the tool calls the dispatcher is driven with *)

\* GET /entities of the country template, as the engine serves it: a role
\* descriptor carries its plural and a description, and no "key"
EntitiesTemplate ==
    <<Entry("person", Obj(<<Entry("plural", Str("persons"))>>)),
      Entry("household", Obj(<<
        Entry("plural", Str("households")),
        Entry("roles", Obj(<<
            Entry("adult", Obj(<<Entry("plural", Str("adults"))>>)),
            Entry("child", Obj(<<Entry("plural", Str("children"))>>))>>))>>))>>

\* the same entities with role descriptors that also carry their key
EntitiesKeyed ==
    <<Entry("person", Obj(<<Entry("plural", Str("persons"))>>)),
      Entry("household", Obj(<<
        Entry("plural", Str("households")),
        Entry("roles", Obj(<<
            Entry("adult", Obj(<<Entry("key", Str("adult")), Entry("plural", Str("adults"))>>)),
            Entry("child", Obj(<<Entry("key", Str("child")),
                                 Entry("plural", Str("children"))>>))>>))>>))>>

\* an entity set whose individual entity is not called person
EntitiesIndividus ==
    <<Entry("individu", Obj(<<Entry("plural", Str("individus"))>>)),
      Entry("household", Obj(<<
        Entry("plural", Str("households")),
        Entry("roles", Obj(<<
            Entry("adult", Obj(<<Entry("key", Str("adult")), Entry("plural", Str("adults"))>>)),
            Entry("child", Obj(<<Entry("key", Str("child")),
                                 Entry("plural", Str("children"))>>))>>))>>))>>

EntitySets == {EntitiesTemplate, EntitiesKeyed, EntitiesIndividus}

\* GET /variables
VariablesBody ==
    <<Entry("salary", Obj(<<Entry("description", Str("Salary earned this month")),
                            Entry("href", Str("/variable/salary"))>>)),
      Entry("income_tax", Obj(<<Entry("description", Str("Income Tax")),
                                Entry("href", Str("/variable/income_tax"))>>))>>

\* GET /variables with a description missing and a description null
VariablesBodySparse ==
    <<Entry("salary", Obj(<<Entry("href", Str("/variable/salary"))>>)),
      Entry("income_tax", Obj(<<Entry("description", Null),
                                Entry("href", Str("/variable/income_tax"))>>))>>

VariableDetail(name, entity) ==
    Obj(<<Entry("id", Str(name)), Entry("entity", Str(entity)),
          Entry("definitionPeriod", Str("MONTH"))>>)

ErrorBody(message) == Obj(<<Entry("error", Str(message))>>)

\* the ways a request can fail
Failures ==
    {Response(500, ErrorBody("Internal server error")),
     Response(404, ErrorBody("Not found")),
     Response(400, Obj(<<Entry("persons/alice/salary", Str("bad value"))>>)),
     Response(502, [text |-> "Bad Gateway"]),
     Response(500, List(<<>>)),
     Refused,
     TimedOut}

\* the failures the two schema fetches of validate_situation are driven with
SchemaFailures == {Response(500, ErrorBody("Internal server error")), Refused, TimedOut}

\* the answers to one GET /variable/<name>
DetailAnswers(name) ==
    {Response(200, VariableDetail(name, "person")),
     Response(200, VariableDetail(name, "household")),
     Response(404, ErrorBody("Variable not found")),
     Refused, TimedOut}

\* an engine that answers every request
HealthyEngine ==
    [entities |-> Response(200, Obj(EntitiesTemplate)),
     variables |-> Response(200, Obj(VariablesBody)),
     variable |-> <<Entry("salary", Response(200, VariableDetail("salary", "person"))),
                    Entry("income_tax",
                          Response(200, VariableDetail("income_tax", "person")))>>,
     parameters |-> Response(200, Obj(<<Entry("taxes.rate", Obj(<<>>))>>)),
     parameter |-> Response(200, Obj(<<Entry("id", Str("taxes.rate"))>>)),
     calculate |-> Response(200, Obj(<<>>)),
     trace |-> Response(200, Obj(<<>>))]

PersonIds == {"alice"}
RefIds == {"alice", "zed"}
GroupIds == {"h1"}

PeriodValue == Obj(<<Entry("2024-01", Num(3000))>>)

VariableKeys == {"salary", "bogus"}

PersonMaps ==
    MapsUpTo([id \in PersonIds |->
                {Obj(d) : d \in MapsUpTo([key \in VariableKeys |-> {PeriodValue}], MaxKeys)}],
             Cardinality(PersonIds))

RefLists == SeqsUpTo({Str(id) : id \in RefIds}, MaxRefs)

\* the values a key of a group instance is given: role lists under the role
\* plural, a period mapping under the role key and the variable names
GroupValues ==
    [key \in {"adults", "adult"} \cup VariableKeys |->
        IF key = "adults" THEN {List(l) : l \in RefLists} ELSE {PeriodValue}]

GroupMaps ==
    MapsUpTo([id \in GroupIds |-> {Obj(d) : d \in MapsUpTo(GroupValues, MaxKeys)}],
             Cardinality(GroupIds))

\* under the key of an individual entity that is not called person, the
\* instances carry one variable each
IndividusMaps == {m \in PersonMaps : \A i \in 1..Len(m) : Len(m[i].v.obj) = 1}

TopValues ==
    [key \in {"persons", "individus", "households", "companies"} |->
        IF key = "persons" THEN {Obj(m) : m \in PersonMaps}
        ELSE IF key = "individus" THEN {Obj(m) : m \in IndividusMaps}
        ELSE IF key = "households" THEN {Obj(m) : m \in GroupMaps}
        ELSE {Obj(<<>>)}]

\* the orders in which a situation lists its top-level keys
SituationKeySeqs == InjectiveSeqs(DOMAIN TopValues, MaxTop)

\* the situations whose top-level keys are ks, in this order
SituationsWithKeys(ks) == MapsWithKeys(ks, TopValues)

\* the situations calculate and trace_calculation are driven with
SmallSituations == {<<>>} \cup SituationsWithKeys(<<"persons">>)

\* the situations validate_situation is driven with when a schema fetch fails
OneKeySituations ==
    {<<>>} \cup UNION {SituationsWithKeys(<<key>>) : key \in DOMAIN TopValues}

SituationArgs(sits) == {<<>>} \cup {<<Entry("situation", Obj(s))>> : s \in sits}

EntityArgs == {<<>>, <<Entry("entity", Str(""))>>, <<Entry("entity", Str("person"))>>,
               <<Entry("entity", Str("household"))>>}

ToolCall(name, arguments, eng) == [name |-> name, arguments |-> arguments, engine |-> eng]

VariableEngines ==
    {[HealthyEngine EXCEPT !.variables = v,
                           !.variable = <<Entry("salary", a), Entry("income_tax", b)>>] :
        v \in {Response(200, Obj(VariablesBody)), Response(200, Obj(VariablesBodySparse)),
               Response(500, ErrorBody("Internal server error")), Refused},
        a \in DetailAnswers("salary"), b \in DetailAnswers("income_tax")}

ToolCalls ==
    {ToolCall(n, <<>>, [HealthyEngine EXCEPT !.entities = a]) :
        n \in {"list_entities", "List_Entities", "no_such_tool"},
        a \in Failures \cup {Response(200, Obj(e)) : e \in EntitySets}}
    \cup {ToolCall("list_variables", args, eng) : args \in EntityArgs, eng \in VariableEngines}
    \cup {ToolCall("describe_variable", args, [HealthyEngine EXCEPT !.variable = <<Entry("salary", a)>>]) :
            args \in {<<>>, <<Entry("variable_name", Str("salary"))>>,
                      <<Entry("variable_name", Str("nonexistent_variable"))>>},
            a \in Failures \cup {Response(200, VariableDetail("salary", "person"))}}
    \cup {ToolCall("list_parameters", <<>>, [HealthyEngine EXCEPT !.parameters = a]) :
            a \in Failures \cup {HealthyEngine.parameters}}
    \cup {ToolCall("get_parameter", args, [HealthyEngine EXCEPT !.parameter = a]) :
            args \in {<<>>, <<Entry("parameter_id", Str("taxes.rate"))>>},
            a \in Failures \cup {HealthyEngine.parameter}}
    \cup {ToolCall("search_variables", q \o args, eng) :
            q \in {<<>>, <<Entry("query", Str("SAL"))>>, <<Entry("query", Str("tax"))>>,
                   <<Entry("query", Str("zzz"))>>},
            args \in {<<>>, <<Entry("entity", Str("person"))>>},
            eng \in VariableEngines}
    \cup {ToolCall("calculate", args, [HealthyEngine EXCEPT !.calculate = a]) :
            args \in SituationArgs(SmallSituations),
            a \in Failures \cup {HealthyEngine.calculate}}
    \cup {ToolCall("trace_calculation", args, [HealthyEngine EXCEPT !.trace = a]) :
            args \in SituationArgs(SmallSituations),
            a \in Failures \cup {HealthyEngine.trace}}
    \cup {ToolCall("validate_situation", args,
                   [HealthyEngine EXCEPT !.entities = e, !.variables = v]) :
            args \in SituationArgs(OneKeySituations),
            e \in SchemaFailures \cup {Response(200, Obj(es)) : es \in EntitySets},
            v \in SchemaFailures \cup {Response(200, Obj(VariablesBody))}}

-----------------------------------------------------------------------------
(* The dispatcher as a state machine: a call is received (running), handled *)
(* by call_tool (done), and its result taken by the transport               *)

\* the normalizer harness is not part of the server's behaviours
NormIdle == [phase |-> "unused"]

\* no error construction is being followed
NoneMade == [phase |-> "unused"]

Init ==
    /\ norm = NormIdle
    /\ dstate = "idle"
    /\ call = None
    /\ engine = None
    /\ rendered = <<>>
    /\ escaped = FALSE
    /\ requests = <<>>
    /\ posted = <<>>
    /\ transport = NoClient
    /\ made = NoneMade
    /\ earlier = None

\* the transport delivers the tool call c; the engine is in the condition c.engine
Deliver(c) ==
    /\ call' = Some([name |-> c.name, arguments |-> c.arguments])
    /\ engine' = Some(c.engine)
    /\ dstate' = "running"
    /\ rendered' = <<>>
    /\ escaped' = FALSE
    /\ requests' = <<>>
    /\ posted' = <<>>
    /\ UNCHANGED <<norm, transport, made, earlier>>

\* a call of any tool arrives
Receive == dstate = "idle" /\ \E c \in ToolCalls : Deliver(c)

\* a call of validate_situation arrives while the engine serves its schema
ReceiveSituation ==
    /\ dstate = "idle"
    /\ \E ks \in SituationKeySeqs : \E s \in SituationsWithKeys(ks) : \E es \in EntitySets :
        Deliver(ToolCall("validate_situation", <<Entry("situation", Obj(s))>>,
                         [HealthyEngine EXCEPT !.entities = Response(200, Obj(es))]))

\* call_tool runs to its end
CallTool ==
    /\ dstate = "running"
    /\ LET d == Dispatch(call[1].name, call[1].arguments, engine[1])
           o == Render(d.res)
       IN  /\ rendered' = rendered \o o.out
           /\ escaped' = o.escaped
           /\ requests' = d.reqs
           /\ posted' = d.sent
           /\ dstate' = IF o.escaped THEN "faulted" ELSE "done"
           \* the first request of the process creates the handle of the
           \* module's client (server.py:18), later ones reuse it
           /\ transport' = IF d.reqs = <<>> THEN transport ELSE client(transport)
    /\ UNCHANGED <<norm, call, engine, made, earlier>>

\* the transport takes the result and the call is over
Return ==
    /\ dstate \in {"done", "faulted"}
    /\ dstate' = "idle"
    /\ call' = None
    /\ engine' = None
    /\ rendered' = <<>>
    /\ escaped' = FALSE
    /\ requests' = <<>>
    /\ posted' = <<>>
    /\ UNCHANGED <<norm, transport, made, earlier>>

\* main ends: the stdio transport is left and server.run returns; nothing in
\* main or run touches the module's client
Shutdown ==
    /\ dstate = "idle"
    /\ dstate' = "stopped"
    /\ UNCHANGED <<norm, call, engine, rendered, escaped, requests, posted, transport, made,
                   earlier>>

Next == Receive \/ ReceiveSituation \/ CallTool \/ Return \/ Shutdown

Spec == Init /\ [][Next]_vars

-----------------------------------------------------------------------------
(* The normalizer applied to bounded upstream bodies *)

BodyKeys == {"error", "persons/alice/salary", "detail"}
BodyValues == {Str("X"), Num(42), Null}
Bodies == MapsUpTo([key \in BodyKeys |-> BodyValues], MaxBodyKeys)
Statuses == {400, 404, 500}

InitNorm ==
    /\ norm \in {[phase |-> "input", body |-> b, status |-> s] :
                    b \in Bodies, s \in Statuses}
    /\ dstate = "idle"
    /\ call = None
    /\ engine = None
    /\ rendered = <<>>
    /\ escaped = FALSE
    /\ requests = <<>>
    /\ posted = <<>>
    /\ transport = NoClient
    /\ made = NoneMade
    /\ earlier = None

Normalize ==
    /\ norm.phase = "input"
    /\ norm' = [phase |-> "output", body |-> norm.body, status |-> norm.status,
                result |-> format_api_error(norm.body, norm.status)]
    /\ UNCHANGED <<dstate, call, engine, rendered, escaped, requests, posted, transport, made,
                   earlier>>

NextNorm == Normalize

SpecNorm == InitNorm /\ [][NextNorm]_vars

-----------------------------------------------------------------------------
(* The transport client on its own: operations and close, in any order *)

ClientOps ==
    {"get_entities", "get_variables", "get_variable", "get_parameters",
     "get_parameter", "calculate", "trace"}

\* the one request an operation issues
RequestOf(op) ==
    CASE op = "get_entities" -> "GET /entities"
      [] op = "get_variables" -> "GET /variables"
      [] op = "get_variable" -> "GET /variable/salary"
      [] op = "get_parameters" -> "GET /parameters"
      [] op = "get_parameter" -> "GET /parameter/taxes.rate"
      [] op = "calculate" -> "POST /calculate"
      [] op = "trace" -> "POST /trace"

\* the bodies a response carries: JSON mappings, other JSON values, and text
\* that is no JSON
ClientBodies ==
    {Obj(<<>>), ErrorBody("X"), Obj(<<Entry("error", Num(42))>>),
     Obj(<<Entry("persons/alice/salary", Str("bad value"))>>),
     List(<<>>), List(<<Str("error")>>), Str("oops"), Str("an error"), Num(7), Null,
     [text |-> "Bad Gateway"]}

ClientStatuses == {200, 400, 404, 503}

Answers ==
    {Response(st, b) : st \in ClientStatuses, b \in ClientBodies} \cup {Refused, TimedOut}

InitClient ==
    /\ transport = NoClient
    /\ made = NoneMade
    /\ earlier = None
    /\ norm = NormIdle
    /\ dstate = "idle"
    /\ call = None
    /\ engine = None
    /\ rendered = <<>>
    /\ escaped = FALSE
    /\ requests = <<>>
    /\ posted = <<>>

\* one operation of the client: self.client, the request, its outcome
Operate ==
    /\ transport._client # None \/ transport.created < MaxHandles
    /\ \E op \in ClientOps : \E answer \in Answers :
        LET t == client(transport)
        IN  transport' = [t EXCEPT !.last = Some([op |-> op,
                                                  sent |-> <<RequestOf(op)>>,
                                                  before |-> transport._client,
                                                  handle |-> t._client[1],
                                                  answer |-> answer,
                                                  result |-> ClientOp(answer)])]
    /\ UNCHANGED <<norm, dstate, call, engine, rendered, escaped, requests, posted, made,
                   earlier>>

Close ==
    /\ Len(transport.closes) <= MaxHandles
    /\ transport' = [close(transport) EXCEPT
                        !.last = None,
                        !.closing = Some([before |-> transport._client,
                                          closes |-> transport.closes])]
    /\ UNCHANGED <<norm, dstate, call, engine, rendered, escaped, requests, posted, made,
                   earlier>>

NextClient == Operate \/ Close

SpecClient == InitClient /\ [][NextClient]_vars

-----------------------------------------------------------------------------
(* The error taxonomy on its own: every constructor applied to bounded       *)
(* arguments, and the error serialized                                       *)

\* the ways the code constructs a Tool Error: the four subclasses, the
\* dispatcher's catch-all (server.py:280-284), and the base class directly
Constructors ==
    {"ValidationError", "NotFoundError", "DependencyError", "ConnectionError",
     "internal_error", "MCPError"}

MessageArgs == {"", "Situation is required"}
DetailArgs == {None, Some(<<>>), Some(<<Entry("url", Str(base_url))>>)}
SuggestionArgs == {None, Some(<<>>), Some(<<"Check the field path and value format">>)}

\* error_type and code as the constructor is given them: fixed for all but
\* the base class
KindArgs(ctor) ==
    IF ctor = "MCPError"
    THEN {"validation_error", "teapot_error"} \X {400, 418}
    ELSE {<<"", 0>>}

Construct(ctor, kind, message, details, suggestions) ==
    CASE ctor = "ValidationError" -> ValidationError(message, details, suggestions)
      [] ctor = "NotFoundError" -> NotFoundError(message, details, suggestions)
      [] ctor = "DependencyError" -> DependencyError(message, details, suggestions)
      [] ctor = "ConnectionError" -> ConnectionError(message, details, suggestions)
      [] ctor = "internal_error" -> MCPError("internal_error", message, 500, None, None)
      [] ctor = "MCPError" -> MCPError(kind[1], message, kind[2], details, suggestions)

ConstructionArgs ==
    UNION {{[ctor |-> c, kind |-> k, message |-> m, details |-> d, suggestions |-> g] :
            k \in KindArgs(c), m \in MessageArgs, d \in DetailArgs,
            g \in SuggestionArgs} : c \in Constructors}

InitErr ==
    /\ made \in {[phase |-> "args", args |-> a] : a \in ConstructionArgs}
    /\ transport = NoClient
    /\ norm = NormIdle
    /\ dstate = "idle"
    /\ call = None
    /\ engine = None
    /\ rendered = <<>>
    /\ escaped = FALSE
    /\ requests = <<>>
    /\ posted = <<>>
    /\ earlier = None

\* the constructor runs
Make ==
    /\ made.phase = "args"
    /\ made' = [phase |-> "made", args |-> made.args,
                 error |-> Construct(made.args.ctor, made.args.kind, made.args.message,
                                     made.args.details, made.args.suggestions)]
    /\ UNCHANGED <<norm, dstate, call, engine, rendered, escaped, requests, posted, transport,
                   earlier>>

\* the error is serialized
Serialize ==
    /\ made.phase = "made"
    /\ made' = [phase |-> "serialized", args |-> made.args, error |-> made.error,
                 dict |-> to_dict(made.error)]
    /\ UNCHANGED <<norm, dstate, call, engine, rendered, escaped, requests, posted, transport,
                   earlier>>

NextErr == Make \/ Serialize

SpecErr == InitErr /\ [][NextErr]_vars

-----------------------------------------------------------------------------
(* Repeated calls: the dispatcher driven with a small set of calls, where a  *)
(* handled validate_situation call may be kept to compare a later one with   *)

\* the dangling reference of the scenario: alice referred to, not defined
DanglingSituation ==
    <<Entry("persons", Obj(<<>>)),
      Entry("households", Obj(<<Entry("h1", Obj(<<
            Entry("adults", List(<<Str("alice")>>))>>))>>))>>

\* alice with a salary given for a year
YearKeySituation ==
    <<Entry("persons", Obj(<<Entry("alice", Obj(<<
            Entry("salary", Obj(<<Entry("2024", Num(36000))>>))>>))>>))>>

RepeatSituations ==
    SituationsWithKeys(<<"persons">>)
        \cup {<<Entry("persons", Obj(<<Entry("alice", Obj(<<Entry("salary", PeriodValue)>>))>>)),
                Entry("households", Obj(<<Entry("h1", Obj(<<
                    Entry("adults", List(<<Str("alice")>>))>>))>>))>>,
              DanglingSituation,
              YearKeySituation,
              <<Entry("companies", Obj(<<>>))>>}

\* entity sets whose role descriptors are not all mappings: none is, only the
\* second is, only the first is
HouseholdWithRoles(roles) ==
    <<Entry("person", Obj(<<Entry("plural", Str("persons"))>>)),
      Entry("household", Obj(<<Entry("plural", Str("households")),
                               Entry("roles", Obj(roles))>>))>>

AdultDescriptor == Obj(<<Entry("key", Str("adult")), Entry("plural", Str("adults"))>>)
ChildDescriptor == Obj(<<Entry("key", Str("child")), Entry("plural", Str("children"))>>)

EntitiesRoleNames ==
    HouseholdWithRoles(<<Entry("adult", Str("Adult")), Entry("child", Str("Child"))>>)
EntitiesNameFirst ==
    HouseholdWithRoles(<<Entry("adult", Str("Adult")), Entry("child", ChildDescriptor)>>)
EntitiesMappingFirst ==
    HouseholdWithRoles(<<Entry("adult", AdultDescriptor), Entry("child", Str("Child"))>>)

RoleShapeEntities == {EntitiesRoleNames, EntitiesNameFirst, EntitiesMappingFirst}

\* a household that names its members under the role key and the role plural
RoleKeySituation ==
    <<Entry("persons", Obj(<<Entry("alice", Obj(<<>>))>>)),
      Entry("households", Obj(<<Entry("h1", Obj(<<
            Entry("adult", List(<<Str("zed")>>)),
            Entry("adults", List(<<Str("alice")>>))>>))>>))>>

\* situations that give instances under the key of an entity, not its plural
SingularPersonSituation ==
    <<Entry("person", Obj(<<Entry("alice", Obj(<<Entry("bogus", PeriodValue)>>))>>)),
      Entry("households", Obj(<<Entry("h1", Obj(<<
            Entry("adults", List(<<Str("alice")>>))>>))>>))>>

SingularGroupSituation ==
    <<Entry("persons", Obj(<<Entry("alice", Obj(<<>>))>>)),
      Entry("household", Obj(<<Entry("h1", Obj(<<
            Entry("bogus", PeriodValue),
            Entry("adults", List(<<Str("zed")>>))>>))>>))>>

RepeatCalls ==
    {ToolCall("validate_situation", <<Entry("situation", Obj(sit))>>,
              [HealthyEngine EXCEPT !.entities = e]) :
        sit \in RepeatSituations,
        e \in {Response(200, Obj(es)) : es \in EntitySets} \cup {Refused}}
    \cup {ToolCall("validate_situation", <<Entry("situation", Obj(RoleKeySituation))>>,
                   [HealthyEngine EXCEPT !.entities = Response(200, Obj(es))]) :
            es \in RoleShapeEntities}
    \cup {ToolCall("validate_situation", <<Entry("situation", Obj(sit))>>,
                   [HealthyEngine EXCEPT !.entities = Response(200, Obj(EntitiesKeyed))]) :
            sit \in {SingularPersonSituation, SingularGroupSituation}}
    \cup {ToolCall("list_entities", <<>>, HealthyEngine),
          ToolCall("search_variables", <<Entry("query", Str("tax"))>>, HealthyEngine),
          ToolCall("calculate", <<Entry("situation", Obj(DanglingSituation))>>,
                   HealthyEngine)}

ReceiveRepeat == dstate = "idle" /\ \E c \in RepeatCalls : Deliver(c)

\* the result of a validate_situation call is taken, and the call kept
Remember ==
    /\ dstate = "done"
    /\ call[1].name = "validate_situation"
    /\ earlier' = Some([call |-> call[1], engine |-> engine[1], rendered |-> rendered,
                        since |-> 0])
    /\ dstate' = "idle"
    /\ call' = None
    /\ engine' = None
    /\ rendered' = <<>>
    /\ escaped' = FALSE
    /\ requests' = <<>>
    /\ posted' = <<>>
    /\ UNCHANGED <<norm, transport, made>>

\* the result of a call is taken; a kept call is one call further away
PassOn ==
    /\ dstate \in {"done", "faulted"}
    /\ earlier' = IF earlier = None THEN None
                  ELSE Some([earlier[1] EXCEPT
                        !.since = IF @ < MaxBetween THEN @ + 1 ELSE MaxBetween])
    /\ dstate' = "idle"
    /\ call' = None
    /\ engine' = None
    /\ rendered' = <<>>
    /\ escaped' = FALSE
    /\ requests' = <<>>
    /\ posted' = <<>>
    /\ UNCHANGED <<norm, transport, made>>

NextRepeat == ReceiveRepeat \/ CallTool \/ Remember \/ PassOn

SpecRepeat == Init /\ [][NextRepeat]_vars

-----------------------------------------------------------------------------
(* Claims about the dispatcher and validate_situation, checked under Spec *)

\* the JSON value the one rendered result of a finished call encodes
Output == rendered[1][1].text.json

\* the fixed Tool Error shape {error: {type, code, message, details, suggestions}}
IsToolError(v) ==
    /\ IsObj(v)
    /\ Len(v.obj) = 1
    /\ v.obj[1].k = "error"
    /\ IsObj(v.obj[1].v)
    /\ Map(v.obj[1].v.obj, LAMBDA e : e.k)
         = <<"type", "code", "message", "details", "suggestions">>

\* a rendered result: one text content that encodes a value
IsRendered(r) ==
    /\ Len(r) = 1
    /\ r[1].type = "text"
    /\ DOMAIN r[1].text \in {{"json"}, {"pystr"}}

\* what call_tool does with the call in flight
Handled == Render(Dispatch(call[1].name, call[1].arguments, engine[1]).res)

\* C1: every tool call, whatever the tool name, the arguments and the engine's
\* behaviour, is handled to its end by returning exactly one rendered result
\* and raising nothing, and once handled it is done with exactly that one
\* rendered result; no exception leaves call_tool.
C1_OneRenderedResult ==
    /\ ~escaped
    /\ dstate \in {"idle", "running", "done", "stopped"}
    /\ dstate = "running" =>
          (rendered = <<>> /\ ~Handled.escaped /\ Len(Handled.out) = 1)
    /\ dstate = "done" => (Len(rendered) = 1 /\ IsRendered(rendered[1]))

\* describe_variable without its required argument ended in one rendered
\* internal error
C1_Witness ==
    /\ dstate = "done"
    /\ call[1].name = "describe_variable"
    /\ call[1].arguments = <<>>
    /\ Len(rendered) = 1
    /\ IsToolError(Output)
    /\ Get(Output.obj[1].v.obj, "type") = Str("internal_error")
    /\ Get(Output.obj[1].v.obj, "message") = Str("'variable_name'")

\* a call of validate_situation with a situation argument has been handled
ValidateDone ==
    /\ dstate = "done"
    /\ call[1].name = "validate_situation"
    /\ Has(call[1].arguments, "situation")

TheSituation == Get(call[1].arguments, "situation").obj

\* the engine answers a fetch with a success status and a JSON body
FetchSucceeds(answer) ==
    answer.r = "response" /\ answer.status < 400 /\ ~IsText(answer.body)

SchemaFetched ==
    FetchSucceeds(engine[1].entities) /\ FetchSucceeds(engine[1].variables)

TheEntities == engine[1].entities.body.obj
TheVariables == engine[1].variables.body.obj

\* {valid: true, ...} or {valid: false, errors, warnings}
IsValidationResult(v) ==
    /\ IsObj(v)
    /\ Has(v.obj, "valid")
    /\ \/ Get(v.obj, "valid") = Bool(TRUE)
       \/ /\ Get(v.obj, "valid") = Bool(FALSE)
          /\ Has(v.obj, "errors")
          /\ Has(v.obj, "warnings")

\* the error strings the finished call reports, in order
Reported ==
    IF IsValidationResult(Output) /\ Has(Output.obj, "errors")
    THEN Map(Get(Output.obj, "errors").list, LAMBDA m : m.str)
    ELSE <<>>

Count(q, x) == Cardinality({i \in 1..Len(q) : q[i] = x})

StartsWith(str, prefix) ==
    Len(str) >= Len(prefix) /\ SubSeq(str, 1, Len(prefix)) = prefix

\* the reported errors that start with prefix, as a set
ReportedWith(prefix) ==
    {Reported[i] : i \in {j \in 1..Len(Reported) : StartsWith(Reported[j], prefix)}}

\* the entities defined without roles, and those defined with roles
IndividualEntities(entities) == SelectSeq(entities, LAMBDA en : ~Has(en.v.obj, "roles"))
GroupEntities(entities) == SelectSeq(entities, LAMBDA en : Has(en.v.obj, "roles"))

\* the instances the situation gives under the plural key of entity en
InstancesOf(situation, en) ==
    GetOr(situation, Get(en.v.obj, "plural").str, Obj(<<>>)).obj

\* the instances of the individual entities
IndividualInstances(situation, entities) ==
    Flatten(Map(IndividualEntities(entities), LAMBDA en : InstancesOf(situation, en)))

IndividualIds(situation, entities) == Keys(IndividualInstances(situation, entities))

\* a key of a group instance that names a role: a role key, or the plural of a
\* role descriptor that is a mapping with a plural field
IsRoleAssignment(key, en) ==
    LET roles == Get(en.v.obj, "roles").obj
    IN  \/ key \in Keys(roles)
        \/ \E i \in 1..Len(roles) :
            /\ IsObj(roles[i].v)
            /\ Has(roles[i].v.obj, "plural")
            /\ Get(roles[i].v.obj, "plural") = Str(key)

MissingPerson == "At least one person must be defined"

\* C2, for a situation with at least one top-level key: with both schema
\* fetches succeeding, validate_situation ends in a validation result whatever
\* the situation, and it ends in a Tool Error only when a schema fetch fails.
C2_RaisesOnlyOnFetchFailure ==
    (ValidateDone /\ TheSituation # <<>>) =>
        /\ SchemaFetched => IsValidationResult(Output)
        /\ IsToolError(Output) => ~SchemaFetched

\* C3, for a situation with at least one top-level key: a situation without
\* any instance of the individual entity is reported valid: false with the
\* missing-person message exactly once among its errors.
C3_MissingPersonReported ==
    (ValidateDone /\ TheSituation # <<>> /\ SchemaFetched
        /\ IndividualInstances(TheSituation, TheEntities) = <<>>) =>
        /\ IsValidationResult(Output)
        /\ Get(Output.obj, "valid") = Bool(FALSE)
        /\ Count(Reported, MissingPerson) = 1

\* C4: the missing-person message is reported only when the situation has no
\* instance under the plural key of the entity defined without roles, and
\* those instances are the ones whose variables are checked and against which
\* role references are resolved.
C4_PersonsUnderIndividualPlural ==
    (ValidateDone /\ SchemaFetched /\ IsValidationResult(Output)) =>
        /\ Count(Reported, MissingPerson) > 0
              => IndividualInstances(TheSituation, TheEntities) = <<>>
        /\ LET inds == IndividualInstances(TheSituation, TheEntities)
           IN  \A i \in 1..Len(inds) : \A j \in 1..Len(inds[i].v.obj) :
                 ~Has(TheVariables, inds[i].v.obj[j].k) =>
                    Count(Reported, "Unknown variable '" \o inds[i].v.obj[j].k
                            \o "' for person '" \o inds[i].k \o "'") > 0
        /\ \A id \in IndividualIds(TheSituation, TheEntities) :
              ReportedWith("Person '" \o id \o "' in ") = {}

\* every role descriptor of every group entity is a mapping with a plural
RolesCarryPlural(entities) ==
    \A i \in 1..Len(entities) :
        Has(entities[i].v.obj, "roles") =>
            LET roles == Get(entities[i].v.obj, "roles").obj
            IN  \A j \in 1..Len(roles) :
                    IsObj(roles[j].v) /\ Has(roles[j].v.obj, "plural")

\* the situation of the scenario: alice with a salary, adult of household h1
ScenarioSituation ==
    <<Entry("persons", Obj(<<Entry("alice", Obj(<<Entry("salary", PeriodValue)>>))>>)),
      Entry("households", Obj(<<Entry("h1", Obj(<<
            Entry("adults", List(<<Str("alice")>>))>>))>>))>>

\* C5: when the role descriptors are mappings that carry a plural (with or
\* without a key), a key of a group instance that is a role key or a role
\* plural is taken as a role assignment and never reported as an unknown
\* variable, and the scenario situation validates to valid: true.
C5_RolePluralIsRoleAssignment ==
    (ValidateDone /\ SchemaFetched /\ RolesCarryPlural(TheEntities)) =>
        /\ LET groups == GroupEntities(TheEntities)
           IN  \A g \in 1..Len(groups) :
                 LET insts == InstancesOf(TheSituation, groups[g])
                 IN  \A i \in 1..Len(insts) : \A j \in 1..Len(insts[i].v.obj) :
                        IsRoleAssignment(insts[i].v.obj[j].k, groups[g]) =>
                            Count(Reported, "Unknown variable '" \o insts[i].v.obj[j].k
                                \o "' for " \o Get(groups[g].v.obj, "plural").str
                                \o " '" \o insts[i].k \o "'") = 0
        /\ (TheSituation = ScenarioSituation /\ Has(TheVariables, "salary")) =>
                /\ IsValidationResult(Output)
                /\ Get(Output.obj, "valid") = Bool(TRUE)

\* the dangling-reference errors the situation calls for, in check order: one
\* for each id of each list-valued role assignment that is no instance of the
\* individual entity
ExpectedDangling(situation, entities) ==
    LET ids == IndividualIds(situation, entities)
    IN  Flatten(Map(GroupEntities(entities), LAMBDA en :
          Flatten(Map(InstancesOf(situation, en), LAMBDA inst :
            Flatten(Map(inst.v.obj, LAMBDA e :
              IF IsRoleAssignment(e.k, en) /\ IsList(e.v)
              THEN Map(SelectSeq(e.v.list, LAMBDA id : id.str \notin ids),
                       LAMBDA id : "Person '" \o id.str \o "' in "
                            \o Get(en.v.obj, "plural").str \o "/" \o inst.k \o "/" \o e.k
                            \o " is not defined in persons")
              ELSE <<>>))))))

\* C6: validate_situation reports one error per dangling reference of a
\* list-valued role assignment, naming plural, instance, key and id, and none
\* for a reference that is defined: as many such errors as dangling references.
C6_OneErrorPerDanglingReference ==
    (ValidateDone /\ TheSituation # <<>> /\ SchemaFetched) =>
        LET expected == ExpectedDangling(TheSituation, TheEntities)
            got == SelectSeq(Reported, LAMBDA m : StartsWith(m, "Person '"))
        IN  /\ Len(got) = Len(expected)
            /\ \A i \in 1..Len(expected) : Count(got, expected[i]) = Count(expected, expected[i])

\* the unknown-variable errors the situation calls for, in check order
ExpectedUnknownVariables(situation, entities, all_vars) ==
    Flatten(Map(IndividualInstances(situation, entities), LAMBDA inst :
        Map(SelectSeq(inst.v.obj, LAMBDA e : ~Has(all_vars, e.k)),
            LAMBDA e : "Unknown variable '" \o e.k \o "' for person '" \o inst.k \o "'")))
    \o Flatten(Map(GroupEntities(entities), LAMBDA en :
          Flatten(Map(InstancesOf(situation, en), LAMBDA inst :
            Map(SelectSeq(inst.v.obj,
                          LAMBDA e : ~IsRoleAssignment(e.k, en) /\ ~Has(all_vars, e.k)),
                LAMBDA e : "Unknown variable '" \o e.k \o "' for "
                    \o Get(en.v.obj, "plural").str \o " '" \o inst.k \o "'")))))

\* C7: validate_situation reports an unknown-variable error exactly for the
\* keys outside the variable summaries: the keys of the individual-entity
\* instances, and the keys of group instances that are no role assignment.
C7_UnknownVariablesExactly ==
    (ValidateDone /\ TheSituation # <<>> /\ SchemaFetched) =>
        LET expected == ExpectedUnknownVariables(TheSituation, TheEntities, TheVariables)
        IN  ReportedWith("Unknown variable '")
                = {expected[i] : i \in 1..Len(expected)}

\* C8: validate_situation reports "Unknown entity type: '<key>'" for a
\* top-level key if and only if the key is neither the plural nor the own key
\* of an entity of the fetched definitions.
C8_UnknownEntityTypeIff ==
    (ValidateDone /\ TheSituation # <<>> /\ SchemaFetched) =>
        ReportedWith("Unknown entity type: '")
            = {"Unknown entity type: '" \o key \o "'" :
                key \in {k \in Keys(TheSituation) :
                    /\ k \notin Keys(TheEntities)
                    /\ \A i \in 1..Len(TheEntities) :
                          Get(TheEntities[i].v.obj, "plural") # Str(k)}}

-----------------------------------------------------------------------------
(* Claims about the normalizer, checked under SpecNorm *)

NormDone == norm.phase = "output"

HasErrorString(body) == Has(body, "error") /\ IsStr(Get(body, "error"))

\* the mapping m without its entry for key, in the same order
WithoutKey(m, key) == SelectSeq(m, LAMBDA e : e.k # key)

\* the first key of the body that is a field path, in iteration order
FirstFieldIndex(body) ==
    CHOOSE i \in 1..Len(body) :
        /\ body[i].k # "error"
        /\ \A j \in 1..(i - 1) : body[j].k = "error"

\* C9: a body whose "error" entry is a string X is normalized to a Tool Error
\* with message X, not_found (404) when the status is 404 and validation (400)
\* for every other status, whatever other keys the body carries.
C9_ErrorStringRule ==
    (NormDone /\ HasErrorString(norm.body)) =>
        /\ norm.result.message = Get(norm.body, "error").str
        /\ IF norm.status = 404
           THEN norm.result.error_type = "not_found_error" /\ norm.result.code = 404
           ELSE norm.result.error_type = "validation_error" /\ norm.result.code = 400

\* a 404 body {"error": "X", <field path>: ...} was normalized to not_found
C9_Witness ==
    /\ NormDone
    /\ HasErrorString(norm.body)
    /\ Len(norm.body) = 2
    /\ norm.status = 404
    /\ norm.result.error_type = "not_found_error"
    /\ norm.result.message = "X"

\* C10 as stated: a body without a string "error" entry and with a field-path
\* key is normalized, for every status, to a validation error with message
\* "Validation error at <path>: <message>" of the first such key, the hint as
\* suggestion, and details.field_errors equal to the input mapping.
C10_FieldErrorsEqualInput ==
    (NormDone /\ ~HasErrorString(norm.body)
        /\ \E i \in 1..Len(norm.body) : IsFieldKey(norm.body[i].k)) =>
        /\ norm.result.error_type = "validation_error"
        /\ norm.result.code = 400
        /\ norm.result.message =
             "Validation error at " \o norm.body[FirstFieldIndex(norm.body)].k
                \o ": " \o PyStr(norm.body[FirstFieldIndex(norm.body)].v)
        /\ norm.result.suggestions = <<"Check the field path and value format">>
        /\ norm.result.details = <<Entry("field_errors", Obj(norm.body))>>

\* C10 amended: as above, but details.field_errors is the input mapping
\* without its "error" entry (the input mapping itself when it has none).
C10_FieldErrorsWithoutErrorKey ==
    (NormDone /\ ~HasErrorString(norm.body)
        /\ \E i \in 1..Len(norm.body) : IsFieldKey(norm.body[i].k)) =>
        /\ norm.result.error_type = "validation_error"
        /\ norm.result.code = 400
        /\ norm.result.message =
             "Validation error at " \o norm.body[FirstFieldIndex(norm.body)].k
                \o ": " \o PyStr(norm.body[FirstFieldIndex(norm.body)].v)
        /\ norm.result.suggestions = <<"Check the field path and value format">>
        /\ norm.result.details =
             <<Entry("field_errors", Obj(WithoutKey(norm.body, "error")))>>
        /\ (~Has(norm.body, "error") =>
                norm.result.details = <<Entry("field_errors", Obj(norm.body))>>)

\* a 404 body {"error": 42, "detail": "X"} was normalized to a validation error
\* from its first field key, and its field_errors left the "error" entry out
C10_Witness ==
    /\ NormDone
    /\ norm.status = 404
    /\ norm.body = <<Entry("error", Num(42)), Entry("detail", Str("X"))>>
    /\ norm.result.error_type = "validation_error"
    /\ norm.result.message = "Validation error at detail: X"
    /\ norm.result.details = <<Entry("field_errors", Obj(<<Entry("detail", Str("X"))>>))>>

\* C11: a body that matches neither the error-string rule nor the field-path
\* rule (the empty mapping, or a body whose only key is "error" with a value
\* that is no string) is normalized, for every status, to a validation error
\* (400) with message "API returned an error", details.raw_response equal to
\* the full body, and no suggestions.
C11_RawResponseRule ==
    (NormDone /\ ~HasErrorString(norm.body)
        /\ \A i \in 1..Len(norm.body) : norm.body[i].k = "error") =>
        /\ norm.body \in {<<>>} \cup {<<Entry("error", v)>> : v \in BodyValues}
        /\ norm.result.error_type = "validation_error"
        /\ norm.result.code = 400
        /\ norm.result.message = "API returned an error"
        /\ norm.result.details = <<Entry("raw_response", Obj(norm.body))>>
        /\ norm.result.suggestions = <<>>

\* the 404 body {"error": 42} was normalized by the last rule
C11_Witness ==
    /\ NormDone
    /\ norm.status = 404
    /\ norm.body = <<Entry("error", Num(42))>>
    /\ norm.result.message = "API returned an error"
    /\ norm.result.details = <<Entry("raw_response", Obj(<<Entry("error", Num(42))>>))>>

-----------------------------------------------------------------------------
(* Claims about the transport client, checked under SpecClient *)

Operated == transport.last # None
LastOp == transport.last[1]

\* the Tool Error the normalizer yields for a failure response
NormalizedError(answer) ==
    format_api_error(IF IsText(answer.body)
                     THEN <<Entry("error", Str(answer.body.text))>>
                     ELSE answer.body.obj,
                     answer.status)

\* C12: after its single request, an operation that got a response with a
\* status >= 400 raises a Tool Error, whatever the body is (for a JSON mapping
\* or text, the one the normalizer yields for it), and one that got a response
\* with a status < 400 and a JSON body returns that body; no operation issues
\* a second request.
C12_ResponseHandled ==
    (Operated /\ LastOp.answer.r = "response") =>
        /\ Len(LastOp.sent) = 1
        /\ LastOp.answer.status >= 400 =>
              /\ IsRaise(LastOp.result)
              /\ (IsObj(LastOp.answer.body) \/ IsText(LastOp.answer.body)) =>
                    LastOp.result = Raise(NormalizedError(LastOp.answer))
        /\ (LastOp.answer.status < 400 /\ ~IsText(LastOp.answer.body)) =>
              LastOp.result = Ok(LastOp.answer.body)

\* C13: an operation that cannot reach the engine at all, because the
\* connection is refused or the connection attempt times out, raises a
\* connection error (503) whose details carry the target address and the
\* underlying cause.
C13_UnreachableIsConnectionError ==
    (Operated /\ LastOp.answer.r \in {"refused", "timeout"}) =>
        /\ IsRaise(LastOp.result)
        /\ LastOp.result.mcp.error_type = "connection_error"
        /\ LastOp.result.mcp.code = 503
        /\ LastOp.result.mcp.details =
              <<Entry("url", Str(base_url)), Entry("error", Str(LastOp.answer.cause))>>

-----------------------------------------------------------------------------
(* Claims about error propagation through the dispatcher, checked under Spec *)

\* the engine's answer to a request of the call in flight
AnswerTo(request) ==
    IF request = "GET /entities" THEN engine[1].entities
    ELSE IF request = "GET /variables" THEN engine[1].variables
    ELSE IF StartsWith(request, "GET /variable/")
    THEN VariableAnswer(engine[1], SubSeq(request, 15, Len(request)))
    ELSE IF request = "GET /parameters" THEN engine[1].parameters
    ELSE IF StartsWith(request, "GET /parameter/") THEN engine[1].parameter
    ELSE IF request = "POST /calculate" THEN engine[1].calculate
    ELSE engine[1].trace

\* what the i-th transport client call of the handled call came to
Fetched(i) == ClientOp(AnswerTo(requests[i]))

\* the i-th call is a per-variable detail fetch of an entity filter
IsFilterFetch(i) ==
    call[1].name \in {"list_variables", "search_variables"} /\ i > 1

C15_OtherFailuresAreInternal ==
    /\ (dstate = "running"
            /\ IsFault(Dispatch(call[1].name, call[1].arguments, engine[1]).res)) =>
          (~Handled.escaped /\ Len(Handled.out) = 1)
    /\ (dstate = "done"
            /\ IsFault(Dispatch(call[1].name, call[1].arguments, engine[1]).res)) =>
        rendered = <<format_result(Obj(<<Entry("error", Obj(<<
            Entry("type", Str("internal_error")),
            Entry("code", Num(500)),
            Entry("message",
                  Str(Dispatch(call[1].name, call[1].arguments, engine[1]).res.exc)),
            Entry("details", Obj(<<>>)),
            Entry("suggestions", List(<<>>))>>))>>))>>

\* get_parameter without its required argument was rendered as an internal
\* error carrying the KeyError's message
C15_Witness ==
    /\ dstate = "done"
    /\ call[1].name = "get_parameter"
    /\ call[1].arguments = <<>>
    /\ requests = <<>>
    /\ Get(Output.obj[1].v.obj, "type") = Str("internal_error")
    /\ Get(Output.obj[1].v.obj, "code") = Num(500)
    /\ Get(Output.obj[1].v.obj, "message") = Str("'parameter_id'")

\* the nine tools
ToolNames ==
    {"list_entities", "list_variables", "describe_variable", "list_parameters",
     "get_parameter", "search_variables", "calculate", "trace_calculation",
     "validate_situation"}

\* the finished call rendered a validation error with this message and
\* nothing else, and issued no request
UnknownToolRendered(message) ==
    /\ rendered = <<format_error(ValidationError(message, None, None))>>
    /\ Get(Output.obj[1].v.obj, "type") = Str("validation_error")
    /\ Get(Output.obj[1].v.obj, "code") = Num(400)
    /\ requests = <<>>

\* C16 as stated: a call whose name is none of the nine tool names yields a
\* validation error (400) with message "Unknown tool: '<name>'", the name in
\* single quotes, and issues no request to the engine.
C16_UnknownToolQuoted ==
    (dstate = "done" /\ call[1].name \notin ToolNames) =>
        UnknownToolRendered("Unknown tool: '" \o call[1].name \o "'")

\* C16 amended: the message is "Unknown tool: <name>", the name unquoted.
C16_UnknownToolUnquoted ==
    (dstate = "done" /\ call[1].name \notin ToolNames) =>
        UnknownToolRendered("Unknown tool: " \o call[1].name)

\* the name List_Entities, which differs from a tool name in case only, was
\* answered as an unknown tool while the engine was healthy
C16_Witness ==
    /\ dstate = "done"
    /\ call[1].name = "List_Entities"
    /\ FetchSucceeds(engine[1].entities)
    /\ requests = <<>>
    /\ Get(Output.obj[1].v.obj, "message") = Str("Unknown tool: List_Entities")

-----------------------------------------------------------------------------
(* Claims about the error taxonomy, checked under SpecErr *)

\* the status code of each kind
KindCode(kind) ==
    CASE kind = "validation_error" -> 400
      [] kind = "not_found_error" -> 404
      [] kind = "dependency_error" -> 500
      [] kind = "connection_error" -> 503
      [] kind = "internal_error" -> 500

Kinds ==
    {"validation_error", "not_found_error", "dependency_error", "connection_error",
     "internal_error"}

\* the details and suggestions the construction gives: the dispatcher's
\* catch-all gives none
GivenDetails ==
    IF made.args.ctor = "internal_error" \/ made.args.details = None
    THEN <<>> ELSE made.args.details[1]

GivenSuggestions ==
    IF made.args.ctor = "internal_error" \/ made.args.suggestions = None
    THEN <<>> ELSE made.args.suggestions[1]

\* C17: a Tool Error made by one of the ways the system makes them (the four
\* subclasses and the dispatcher's catch-all) has one of the five kinds and
\* the status code of its kind, its details are the given mapping or the
\* empty one, and its suggestions are the given ones or, when none are given,
\* empty, save for a connection error, which then carries the one suggestion
\* to check that the server is running; serialized, it shows both fields.
C17_KindFixesCode ==
    (made.phase \in {"made", "serialized"} /\ made.args.ctor # "MCPError") =>
        /\ made.error.error_type \in Kinds
        /\ made.error.code = KindCode(made.error.error_type)
        /\ made.error.details = GivenDetails
        /\ made.error.suggestions =
              IF GivenSuggestions = <<>> /\ made.error.error_type = "connection_error"
              THEN <<"Check that the OpenFisca server is running">>
              ELSE GivenSuggestions
        /\ made.phase = "serialized" =>
              /\ Get(made.dict.obj[1].v.obj, "code") = Num(KindCode(made.error.error_type))
              /\ IsObj(Get(made.dict.obj[1].v.obj, "details"))
              /\ IsList(Get(made.dict.obj[1].v.obj, "suggestions"))

\* a connection error made with an empty suggestion list was serialized with
\* code 503, empty details and the default suggestion
C17_Witness ==
    /\ made.phase = "serialized"
    /\ made.args.ctor = "ConnectionError"
    /\ made.args.details = None
    /\ made.args.suggestions = Some(<<>>)
    /\ Get(made.dict.obj[1].v.obj, "code") = Num(503)
    /\ Get(made.dict.obj[1].v.obj, "details") = Obj(<<>>)
    /\ Get(made.dict.obj[1].v.obj, "suggestions")
         = List(<<Str("Check that the OpenFisca server is running")>>)

\* the five fields read back from a serialization
from_dict(d) ==
    LET inner == Get(d.obj, "error").obj
    IN  [error_type |-> Get(inner, "type").str,
         message |-> Get(inner, "message").str,
         code |-> Get(inner, "code").num,
         details |-> Get(inner, "details").obj,
         suggestions |-> Map(Get(inner, "suggestions").list, LAMBDA g : g.str)]

\* C18: the serialization of a Tool Error has the shape {error: {type, code,
\* message, details, suggestions}}, the five fields read back from it are the
\* error's, and no error that differs from it in a field has the same
\* serialization.
C18_SerializationLossless ==
    made.phase = "serialized" =>
        /\ IsToolError(made.dict)
        /\ from_dict(made.dict) = made.error
        /\ \A a \in ConstructionArgs :
              LET other == Construct(a.ctor, a.kind, a.message, a.details, a.suggestions)
              IN  other # made.error => to_dict(other) # made.dict

\* an error of the base class with a kind and a code of its own was
\* serialized and read back
C18_Witness ==
    /\ made.phase = "serialized"
    /\ made.args.ctor = "MCPError"
    /\ made.error.error_type = "teapot_error"
    /\ made.error.code = 418
    /\ made.error.details # <<>>
    /\ made.error.suggestions # <<>>
    /\ from_dict(made.dict) = made.error

-----------------------------------------------------------------------------
(* Claims about search_variables, checked under Spec *)

SearchDone ==
    /\ dstate = "done"
    /\ call[1].name = "search_variables"
    /\ Has(call[1].arguments, "query")
    /\ FetchSucceeds(engine[1].variables)

TheQuery == Get(call[1].arguments, "query").str

\* the description of a variable summary, when it is a string
DescriptionOf(e) ==
    IF Has(e.v.obj, "description") /\ IsStr(Get(e.v.obj, "description"))
    THEN Get(e.v.obj, "description").str
    ELSE ""

\* the name or the description contains the query, whatever the case
NameOrDescriptionHas(e, query) ==
    \/ Contains(Lower(e.k), Lower(query))
    \/ Contains(Lower(DescriptionOf(e)), Lower(query))

\* the detail fetch of the variable succeeds and reports the entity
ReportsEntity(name, entity) ==
    LET answer == VariableAnswer(engine[1], name)
    IN  /\ FetchSucceeds(answer)
        /\ IsObj(answer.body)
        /\ Has(answer.body.obj, "entity")
        /\ Get(answer.body.obj, "entity") = entity

\* the summaries search_variables is to return, in the engine's order
ExpectedMatches ==
    SelectSeq(TheVariables, LAMBDA e :
        /\ NameOrDescriptionHas(e, TheQuery)
        /\ Has(call[1].arguments, "entity") =>
              ReportsEntity(e.k, Get(call[1].arguments, "entity")))

\* C19: search_variables returns exactly the summaries of the variables whose
\* name or description contains the query as a case-insensitive substring
\* (a description may be a string, absent or null), with an entity filter
\* only those whose detail fetch succeeds and reports that entity, and the
\* payload {message, suggestions} when there is no match.
C19_SearchReturnsMatches ==
    SearchDone =>
        IF ExpectedMatches = <<>>
        THEN /\ IsObj(Output)
             /\ Keys(Output.obj) = {"message", "suggestions"}
        ELSE Output = Obj(ExpectedMatches)

-----------------------------------------------------------------------------
(* Claims about the connection handle, checked under SpecClient *)

\* C20: constructing the client creates no handle; an operation that finds
\* no handle creates one, and an operation that finds a handle uses that same
\* handle; in every state the unclosed handles are exactly the client's
\* current handle, so at most one handle is unclosed.
C20_OneLazyHandle ==
    /\ transport.created = 0 => (transport._client = None /\ ~Operated)
    /\ transport.open = (IF transport._client = None THEN {} ELSE {transport._client[1]})
    /\ Cardinality(transport.open) <= 1
    /\ Operated =>
          /\ transport._client = Some(LastOp.handle)
          /\ IF LastOp.before = None
             THEN LastOp.handle = transport.created
             ELSE LastOp.handle = LastOp.before[1]

\* after an operation, a close and an operation, a further operation used the
\* second handle again, the only one unclosed
C20_Witness ==
    /\ Operated
    /\ transport.created = 2
    /\ LastOp.before = Some(2)
    /\ LastOp.handle = 2
    /\ transport.open = {2}

\* the handles close() was called on, as a set
ClosedHandles == {transport.closes[i] : i \in 1..Len(transport.closes)}

\* C21: a close() that finds no handle, because the client was never used or
\* is already closed, changes nothing; a close() that finds a handle closes
\* that handle and drops it; no handle is closed twice; and an operation
\* after a close() runs on a fresh handle that is not closed, and comes to
\* what the engine's answer makes of it.
C21_CloseIdempotent ==
    /\ \A i, j \in 1..Len(transport.closes) :
            transport.closes[i] = transport.closes[j] => i = j
    /\ ClosedHandles \cap transport.open = {}
    /\ (transport.closing # None /\ ~Operated) =>
          /\ transport._client = None
          /\ IF transport.closing[1].before = None
             THEN transport.closes = transport.closing[1].closes
             ELSE transport.closes
                    = Append(transport.closing[1].closes, transport.closing[1].before[1])
    /\ Operated =>
          /\ LastOp.handle \notin ClosedHandles
          /\ LastOp.handle \in transport.open
          /\ LastOp.result = ClientOp(LastOp.answer)
          /\ (LastOp.before = None /\ transport.closes # <<>>) =>
                LastOp.handle = transport.closes[Len(transport.closes)] + 1

\* the client was used and closed twice, where the second close() found no
\* handle and changed nothing, and then used again, on a second handle
C21_Witness ==
    /\ Operated
    /\ LastOp.before = None
    /\ LastOp.handle = 2
    /\ IsOk(LastOp.result)
    /\ transport.closing = Some([before |-> None, closes |-> <<1>>])
    /\ transport.closes = <<1>>
    /\ transport.open = {2}

-----------------------------------------------------------------------------
(* Claims about the server's life cycle, checked under Spec *)

\* C22: once main has ended, after any number of tool calls, no connection
\* handle that the module's client created is still open.
C22_HandleReleasedOnShutdown ==
    dstate = "stopped" => transport.open = {}

-----------------------------------------------------------------------------
(* Claims about repeated validation, checked under SpecRepeat *)

\* the call in flight repeats the kept call: the same situation, validated
\* while the engine serves the same schema
RepeatsEarlier ==
    /\ earlier # None
    /\ dstate = "done"
    /\ call[1] = earlier[1].call
    /\ engine[1].entities = earlier[1].engine.entities
    /\ engine[1].variables = earlier[1].engine.variables

-----------------------------------------------------------------------------
(* Claims about what validate_situation examines *)

\* the engine's detail of a variable, when it serves one
HasDetail(var_name) ==
    /\ Has(engine[1].variable, var_name)
    /\ FetchSucceeds(Get(engine[1].variable, var_name))
    /\ IsObj(Get(engine[1].variable, var_name).body)

DetailField(var_name, field) ==
    Get(Get(engine[1].variable, var_name).body.obj, field).str

\* a message names var_name, in quotes
Mentions(m, var_name) == Contains(m, "'" \o var_name \o "'")

\* the known variables the situation gives to an instance of an entity that
\* does not own them
Misattached ==
    {var_name \in Keys(TheVariables) :
        /\ HasDetail(var_name)
        /\ \E e \in 1..Len(TheEntities) :
            LET insts == InstancesOf(TheSituation, TheEntities[e])
            IN  /\ DetailField(var_name, "entity") # TheEntities[e].k
                /\ \E i \in 1..Len(insts) : Has(insts[i].v.obj, var_name)}

ReportsInvalid ==
    /\ IsValidationResult(Output)
    /\ Get(Output.obj, "valid") = Bool(FALSE)

\* C24: a validation result for a situation that gives a known variable to an
\* instance of an entity other than the variable's owning entity is valid:
\* false, with an error that names the variable.
C24_OwnershipChecked ==
    (ValidateDone /\ TheSituation # <<>> /\ SchemaFetched /\ IsValidationResult(Output)) =>
        \A var_name \in Misattached :
            /\ ReportsInvalid
            /\ \E i \in 1..Len(Reported) : Mentions(Reported[i], var_name)

\* the lexical format of a period key
PeriodFormat(key) ==
    IF key = "ETERNITY" THEN "ETERNITY"
    ELSE IF Len(key) = 4 THEN "YEAR"
    ELSE IF Len(key) = 7 THEN "MONTH"
    ELSE IF Len(key) = 10 THEN "DAY"
    ELSE "WEEK"

\* the period keys the situation uses for a known variable whose format is
\* not the one of the variable's definition period
MisformattedPeriods ==
    UNION {UNION {UNION {
        {<<insts[i].v.obj[j].k, key>> :
            key \in {k \in Keys(insts[i].v.obj[j].v.obj) :
                /\ Has(TheVariables, insts[i].v.obj[j].k)
                /\ HasDetail(insts[i].v.obj[j].k)
                /\ PeriodFormat(k)
                    # DetailField(insts[i].v.obj[j].k, "definitionPeriod")}} :
          j \in {n \in 1..Len(insts[i].v.obj) : IsObj(insts[i].v.obj[n].v)}} :
        i \in 1..Len(insts)} :
      insts \in {InstancesOf(TheSituation, TheEntities[e]) : e \in 1..Len(TheEntities)}}

\* C25: a validation result for a situation that uses, for a known variable, a
\* period key whose format is not the one of the variable's definition period
\* is valid: false, with an error that names the period.
C25_PeriodFormatChecked ==
    (ValidateDone /\ TheSituation # <<>> /\ SchemaFetched /\ IsValidationResult(Output)) =>
        \A mis \in MisformattedPeriods :
            /\ ReportsInvalid
            /\ \E i \in 1..Len(Reported) : Mentions(Reported[i], mis[2])

\* the errors the claim calls for, in check order
ExpectedUnknownEntities(situation, entities) ==
    Map(SelectSeq(situation, LAMBDA top :
            /\ top.k \notin Keys(entities)
            /\ \A i \in 1..Len(entities) : Get(entities[i].v.obj, "plural") # Str(top.k)),
        LAMBDA top : "Unknown entity type: '" \o top.k \o "'")

ExpectedPersonErrors(situation, entities, all_vars) ==
    Flatten(Map(IndividualInstances(situation, entities), LAMBDA inst :
        Map(SelectSeq(inst.v.obj, LAMBDA e : ~Has(all_vars, e.k)),
            LAMBDA e : "Unknown variable '" \o e.k \o "' for person '" \o inst.k \o "'")))

ExpectedGroupErrors(situation, entities, all_vars) ==
    LET ids == IndividualIds(situation, entities)
    IN  Flatten(Map(GroupEntities(entities), LAMBDA en :
          Flatten(Map(InstancesOf(situation, en), LAMBDA inst :
            Flatten(Map(inst.v.obj, LAMBDA e :
              IF IsRoleAssignment(e.k, en)
              THEN IF IsList(e.v)
                   THEN Map(SelectSeq(e.v.list, LAMBDA id : id.str \notin ids),
                            LAMBDA id : "Person '" \o id.str \o "' in "
                                \o Get(en.v.obj, "plural").str \o "/" \o inst.k \o "/"
                                \o e.k \o " is not defined in persons")
                   ELSE <<>>
              ELSE IF ~Has(all_vars, e.k)
                   THEN <<"Unknown variable '" \o e.k \o "' for "
                            \o Get(en.v.obj, "plural").str \o " '" \o inst.k \o "'">>
                   ELSE <<>>))))))

ExpectedErrors(situation, entities, all_vars) ==
    ExpectedUnknownEntities(situation, entities)
        \o (IF IndividualInstances(situation, entities) = <<>> THEN <<MissingPerson>>
            ELSE <<>>)
        \o ExpectedPersonErrors(situation, entities, all_vars)
        \o ExpectedGroupErrors(situation, entities, all_vars)

\* C26: validate_situation runs every check whatever errors it has found and
\* reports the errors in check order: unknown entity types in top-level key
\* order, the missing-person error, unknown person variables in person and key
\* order, then group errors by entity, instance and key (references in list
\* order); a situation without errors is valid.
C26_ErrorsInCheckOrder ==
    (ValidateDone /\ TheSituation # <<>> /\ SchemaFetched) =>
        LET expected == ExpectedErrors(TheSituation, TheEntities, TheVariables)
        IN  /\ IsValidationResult(Output)
            /\ Reported = expected
            /\ Get(Output.obj, "valid") = Bool(expected = <<>>)

\* a group entity with a role descriptor that is no mapping
HasNonMappingRole(en) ==
    /\ Has(en.v.obj, "roles")
    /\ \E j \in 1..Len(Get(en.v.obj, "roles").obj) : ~IsObj(Get(en.v.obj, "roles").obj[j].v)

UnknownGroupVariable(en, inst, key) ==
    "Unknown variable '" \o key \o "' for " \o Get(en.v.obj, "plural").str
        \o " '" \o inst.k \o "'"

\* C27: when the role descriptors of a group entity are not all mappings,
\* whatever their order, validate_situation returns a validation result; for
\* the instances of that entity a role key is a role assignment, never an
\* unknown variable, and any other key outside the variables, a role plural
\* included, is reported as an unknown variable.
C27_NonMappingRolesTolerated ==
    (ValidateDone /\ TheSituation # <<>> /\ SchemaFetched) =>
        \A e \in {n \in 1..Len(TheEntities) : HasNonMappingRole(TheEntities[n])} :
            LET en == TheEntities[e]
                insts == InstancesOf(TheSituation, en)
            IN  /\ IsValidationResult(Output)
                /\ \A i \in 1..Len(insts) : \A j \in 1..Len(insts[i].v.obj) :
                      LET key == insts[i].v.obj[j].k
                      IN  IF key \in Keys(Get(en.v.obj, "roles").obj)
                          THEN Count(Reported, UnknownGroupVariable(en, insts[i], key)) = 0
                          ELSE ~Has(TheVariables, key) =>
                                Count(Reported, UnknownGroupVariable(en, insts[i], key)) = 1

\* the instances the situation gives under the own key of entity en and not
\* under its plural
SingularInstances(situation, en) ==
    LET plural == Keys(InstancesOf(situation, en))
    IN  SelectSeq(GetOr(situation, en.k, Obj(<<>>)).obj, LAMBDA inst : inst.k \notin plural)

\* C30: a top-level key that is the own key of an entity is no unknown entity
\* type, and the instances under it are not examined: no unknown-variable
\* error names such an instance and no dangling-reference error names its
\* path; instances under the key of the individual entity are no defined
\* persons, so without instances under its plural the missing-person error is
\* reported, and references to them are reported as dangling.
C30_SingularKeyNotExamined ==
    (ValidateDone /\ TheSituation # <<>> /\ SchemaFetched /\ IsValidationResult(Output)) =>
        \A e \in {n \in 1..Len(TheEntities) : Has(TheSituation, TheEntities[n].k)} :
            LET en == TheEntities[e]
                dangling == ExpectedDangling(TheSituation, TheEntities)
            IN  /\ Count(Reported, "Unknown entity type: '" \o en.k \o "'") = 0
                /\ \A i \in 1..Len(SingularInstances(TheSituation, en)) :
                    \A j \in 1..Len(Reported) :
                      LET inst == SingularInstances(TheSituation, en)[i]
                      IN  /\ Mentions(Reported[j], inst.k) => StartsWith(Reported[j], "Person '")
                          /\ ~Contains(Reported[j], "/" \o inst.k \o "/")
                /\ (~Has(en.v.obj, "roles") /\ InstancesOf(TheSituation, en) = <<>>) =>
                    /\ Count(Reported, MissingPerson) = 1
                    /\ \A d \in 1..Len(dangling) : Count(Reported, dangling[d]) >= 1

\* alice given under the key person and named as an adult of household h1:
\* no person is defined, and the reference to alice dangles
C30_Witness ==
    /\ ValidateDone
    /\ TheSituation = SingularPersonSituation
    /\ SchemaFetched
    /\ Reported = <<MissingPerson,
                    "Person 'alice' in households/h1/adults is not defined in persons">>

-----------------------------------------------------------------------------
(* Claims about list_variables, calculate and trace_calculation *)

\* list_variables has been handled and the engine served the summary mapping
ListDone ==
    /\ dstate = "done"
    /\ call[1].name = "list_variables"
    /\ FetchSucceeds(engine[1].variables)
    /\ IsObj(engine[1].variables.body)

\* the entity filter of the call, "" when absent
TheFilter == GetOr(call[1].arguments, "entity", Str("")).str

\* the engine answers the detail fetch of var_name with a detail that reports
\* the entity
DetailReports(var_name, entity) ==
    LET answer == VariableAnswer(engine[1], var_name)
    IN  /\ FetchSucceeds(answer)
        /\ IsObj(answer.body)
        /\ Has(answer.body.obj, "entity")
        /\ Get(answer.body.obj, "entity") = Str(entity)

SituationCallDone ==
    /\ dstate = "done"
    /\ call[1].name \in {"calculate", "trace_calculation", "validate_situation"}
    /\ Has(call[1].arguments, "situation")

ErrorField(field) == Get(Output.obj[1].v.obj, field)

\* C29: calculate, trace_calculation and validate_situation called with an
\* empty situation end in a validation Tool Error, code 400, message
\* "Situation is required", one suggestion, and send nothing to the engine;
\* with a non-empty situation, calculate and trace_calculation make exactly
\* one request, POST /calculate and POST /trace, whose body is the situation
\* as given, and no schema fetch before it.
C29_EmptySituationRefused ==
    SituationCallDone =>
        IF TheSituation = <<>>
        THEN /\ IsToolError(Output)
             /\ ErrorField("type") = Str("validation_error")
             /\ ErrorField("code") = Num(400)
             /\ ErrorField("message") = Str("Situation is required")
             /\ Len(ErrorField("suggestions").list) = 1
             /\ requests = <<>>
             /\ posted = <<>>
        ELSE call[1].name # "validate_situation" =>
             /\ requests = <<IF call[1].name = "calculate" THEN "POST /calculate"
                             ELSE "POST /trace">>
             /\ posted = <<Get(call[1].arguments, "situation")>>

\* calculate was given alice with a variable the engine does not know: the
\* situation went to POST /calculate as it was, and the engine's answer came back
C29_Witness ==
    /\ SituationCallDone
    /\ call[1].name = "calculate"
    /\ FetchSucceeds(engine[1].calculate)
    /\ \E i \in 1..Len(TheSituation) : \E j \in 1..Len(TheSituation[i].v.obj) :
            Has(TheSituation[i].v.obj[j].v.obj, "bogus")
    /\ requests = <<"POST /calculate">>
    /\ posted = <<Obj(TheSituation)>>
    /\ rendered = <<format_result(engine[1].calculate.body)>>

====
